---- MODULE Spec2Model ----
(***************************************************************************)
(* Model of packages/instrumenter/src/transformers/directive-bookkeeper.ts *)
(* (stryker-js): the bookkeeping of "// Stryker disable|restore" comment   *)
(* directives and the query findIgnoreReason(line, mutatorName).           *)
(*                                                                         *)
(* Strings are TLA+ strings; the JavaScript string functions the code      *)
(* uses (toLowerCase, trim, split, RegExp.exec) are computed character by  *)
(* character.  `string | undefined' is modelled as a sequence of length    *)
(* at most one: << >> is undefined, <<s>> is the string s.                 *)
(***************************************************************************)
EXTENDS Integers, Sequences, FiniteSets, TLC

\* ------------------------------------------------------------------------
\* Bounds of the model
\* ------------------------------------------------------------------------

\* Largest number of rules ever allocated (directives applied) in one run.
MaxRules == 3

\* Source lines are 1 .. MaxLine.
MaxLine == 2

\* Largest number of mutants the collector is ever given in one run.
MaxCollected == 3

\* ------------------------------------------------------------------------
\* JavaScript values
\* ------------------------------------------------------------------------

undefined == << >>

Some(v) == <<v>>

IsDefined(o) == o # << >>

ValueOf(o) == o[1]

\* Array.prototype.includes on an array of strings.
Includes(arr, s) == \E i \in 1..Len(arr) : arr[i] = s

\* ------------------------------------------------------------------------
\* Inputs
\* ------------------------------------------------------------------------

\* node.loc: absent, or a start line.
Locs == {undefined} \cup {Some(l) : l \in 1..MaxLine}

\* node.leadingComments of the nodes of a file about resolution: scopes,
\* wildcard, reasons, and a node with two directives.
ResolutionFile ==
  { Some(<<" Stryker disable all">>),
    Some(<<" Stryker restore StringLiteral">>),
    Some(<<" Stryker disable StringLiteral: known issue ">>),
    Some(<<" Stryker disable next-line StringLiteral">>),
    Some(<<" Stryker restore next-line all">>),
    Some(<<" Stryker disable BooleanLiteral,StringLiteral:both", " Stryker restore next-line BooleanLiteral">>) }

\* node.leadingComments of the nodes of a file about names: letter casing,
\* names no mutator has, the wildcard in capitals.
NamesFile ==
  { Some(<<" Stryker disable stringliteral, Typofied">>),
    Some(<<" Stryker restore STRINGLITERAL">>),
    Some(<<" Stryker disable ALL">>),
    Some(<<" Stryker disable all">>),
    Some(<<" Stryker restore next-line booleanliteral, Foo">>),
    Some(<<" Stryker disable Typofied: a", " Stryker restore next-line Foo, all">>) }

\* node.leadingComments of the nodes of a file with a node without comments,
\* one with an empty list, another tool's comment and comments that are
\* nearly directives -- two leading blanks, no names, keywords in another
\* casing, an unknown keyword -- and with directives whose reason is a blank
\* or nothing after the colon.
MalformedFile ==
  { undefined,
    Some(<< >>),
    Some(<<" istanbul ignore next", "  Stryker disable all", " Stryker disable">>),
    Some(<<" stryker disable all", " Stryker Disable all">>),
    Some(<<" Stryker enable all", " Stryker disable: reason">>),
    Some(<<" Stryker disable all: ">>),
    Some(<<" Stryker disable StringLiteral:">>),
    Some(<<" Stryker restore next-line StringLiteral: not here">>) }

Files == {ResolutionFile, NamesFile, MalformedFile}

\* node.leadingComments of the nodes two files have alike, for two
\* bookkeepers at work in one process: some nodes of ResolutionFile.
SharedFile ==
  { Some(<<" Stryker disable all">>),
    Some(<<" Stryker restore StringLiteral">>),
    Some(<<" Stryker disable next-line StringLiteral">>),
    Some(<<" Stryker disable BooleanLiteral,StringLiteral:both", " Stryker restore next-line BooleanLiteral">>) }

\* The files by name.
FileNamed ==
  [ResolutionFile |-> ResolutionFile, NamesFile |-> NamesFile,
   MalformedFile |-> MalformedFile, SharedFile |-> SharedFile]

\* allMutators: the registries of mutators a call may be given.
Registries ==
  { <<[name |-> "StringLiteral"], [name |-> "BooleanLiteral"]>>,
    <<[name |-> "StringLiteral"]>> }

\* The mutator names findIgnoreReason is asked about.
QueryNames == {"StringLiteral", "stringliteral", "BooleanLiteral", "ArithmeticOperator", "all"}

QueryLines == 1..MaxLine

\* ------------------------------------------------------------------------
\* JavaScript strings
\* ------------------------------------------------------------------------

UpperCaseLetters == "ABCDEFGHIJKLMNOPQRSTUVWXYZ"

LowerCaseLetters == "abcdefghijklmnopqrstuvwxyz"

CharAt(s, i) == SubSeq(s, i, i)

CharsOf(s) == {CharAt(s, i) : i \in 1..Len(s)}

\* The lower-case letter of every upper-case letter.
LowerCaseOf == [c \in CharsOf(UpperCaseLetters) |->
                  CharAt(LowerCaseLetters, CHOOSE i \in 1..26 : CharAt(UpperCaseLetters, i) = c)]

RECURSIVE LowerCaseLetterwise(_)
\* String.prototype.toLowerCase, letter by letter (on the ASCII letters the
\* directive grammar admits).
LowerCaseLetterwise(s) ==
  IF s = "" THEN ""
  ELSE LET c == Head(s)
       IN (IF c \in DOMAIN LowerCaseOf THEN LowerCaseOf[c] ELSE c)
            \o LowerCaseLetterwise(Tail(s))

\* White space as String.prototype.trim and the regular expression's \s see it.
WhiteSpace == {" ", "\t", "\n", "\r", "\f"}

\* Line terminators: the characters the regular expression's `.' does not match.
LineTerminators == {"\n", "\r"}

RECURSIVE TrimStart(_)
TrimStart(s) == IF s # "" /\ Head(s) \in WhiteSpace THEN TrimStart(Tail(s)) ELSE s

RECURSIVE TrimEnd(_)
TrimEnd(s) ==
  IF s # "" /\ CharAt(s, Len(s)) \in WhiteSpace THEN TrimEnd(SubSeq(s, 1, Len(s) - 1)) ELSE s

\* String.prototype.trim
Trim(s) == TrimEnd(TrimStart(s))

RECURSIVE SplitFrom(_, _, _)
\* The pieces of s separated by `sep', s read from index i, `from' the start
\* of the piece being read.
SplitFrom(s, from, i) ==
  IF i > Len(s) THEN <<SubSeq(s, from, Len(s))>>
  ELSE IF CharAt(s, i) = "," THEN <<SubSeq(s, from, i - 1)>> \o SplitFrom(s, i + 1, i + 1)
  ELSE SplitFrom(s, from, i + 1)

\* String.prototype.split(',')
Split(s) == SplitFrom(s, 1, 1)

\* ------------------------------------------------------------------------
\* strykerCommentDirectiveRegex
\*   /^\s?Stryker (disable|restore)(?: (next-line))? ([a-zA-Z, ]+)(?::(.+)?)?/
\* ------------------------------------------------------------------------

WILDCARD == "all"

DEFAULT_REASON == "Ignored using a comment"

\* The character class [a-zA-Z, ]
NameChars == CharsOf(UpperCaseLetters) \cup CharsOf(LowerCaseLetters) \cup {",", " "}

\* LiteralAt with a slip: letter casing is ignored, as under the flag `i'.
LiteralAt_IgnoreCase(s, i, lit) ==
  /\ i + Len(lit) - 1 <= Len(s)
  /\ LowerCaseLetterwise(SubSeq(s, i, i + Len(lit) - 1)) = LowerCaseLetterwise(lit)

\* Whether the literal text lit stands in s at index i.
LiteralAt(s, i, lit) == i + Len(lit) - 1 <= Len(s) /\ SubSeq(s, i, i + Len(lit) - 1) = lit

RECURSIVE NameRunEnd(_, _)
\* [a-zA-Z, ]+ is greedy: the index of the last character of the longest run
\* of class characters starting at i (i - 1 when there is none).
NameRunEnd(s, i) ==
  IF i <= Len(s) /\ CharAt(s, i) \in NameChars THEN NameRunEnd(s, i + 1) ELSE i - 1

RECURSIVE DotRunEnd(_, _)
\* .+ is greedy: the index of the last character before the next line
\* terminator (i - 1 when there is none).
DotRunEnd(s, i) ==
  IF i <= Len(s) /\ CharAt(s, i) \notin LineTerminators THEN DotRunEnd(s, i + 1) ELSE i - 1

\* The tail of the expression, ` ([a-zA-Z, ]+)(?::(.+)?)?', matched at index i
\* of s: << >> when it does not match, else <<[mutators, reason]>>.
MatchNamesAndReason(s, i) ==
  LET e == NameRunEnd(s, i + 1)
  IN IF ~(LiteralAt(s, i, " ") /\ e >= i + 1) THEN << >>
     ELSE <<[mutators |-> SubSeq(s, i + 1, e),
             reason   |-> IF LiteralAt(s, e + 1, ":") /\ DotRunEnd(s, e + 2) >= e + 2
                          THEN Some(SubSeq(s, e + 2, DotRunEnd(s, e + 2)))
                          ELSE undefined]>>

\* strykerCommentDirectiveRegex.exec(comment.value): << >> for null, else
\* <<[directiveType, scope, mutators, reason]>>, the groups of the match.
\* The optional group ` (next-line)' is tried first and given up when the
\* rest of the expression does not match after it.
Exec(s) ==
  LET p0 == IF s # "" /\ Head(s) \in WhiteSpace THEN 2 ELSE 1
      p1 == p0 + Len("Stryker ")
      directiveType == IF LiteralAt(s, p1, "disable") THEN Some("disable")
                       ELSE IF LiteralAt(s, p1, "restore") THEN Some("restore")
                       ELSE undefined
      p2 == p1 + Len("disable")
      scoped == IF LiteralAt(s, p2, " next-line")
                THEN MatchNamesAndReason(s, p2 + Len(" next-line"))
                ELSE << >>
      unscoped == MatchNamesAndReason(s, p2)
  IN IF ~LiteralAt(s, p0, "Stryker ") \/ ~IsDefined(directiveType) THEN << >>
     ELSE IF scoped # << >>
     THEN <<[directiveType |-> ValueOf(directiveType), scope |-> Some("next-line"),
             mutators |-> scoped[1].mutators, reason |-> scoped[1].reason]>>
     ELSE IF unscoped # << >>
     THEN <<[directiveType |-> ValueOf(directiveType), scope |-> undefined,
             mutators |-> unscoped[1].mutators, reason |-> unscoped[1].reason]>>
     ELSE << >>

\* The names the model lower-cases again and again: those of the queries
\* and of the registries.
Names ==
  QueryNames \cup {WILDCARD} \cup UNION {{r[i].name : i \in 1..Len(r)} : r \in Registries}

\* Names lower-cased.  (A table, so that each is lower-cased once per run of
\* the model checker.)
LowerCased == [s \in Names |-> LowerCaseLetterwise(s)]

\* String.prototype.toLowerCase
ToLowerCase(s) ==
  LET known == LowerCased
  IN IF s \in DOMAIN known THEN known[s] ELSE LowerCaseLetterwise(s)

\* ------------------------------------------------------------------------
\* Rules: IgnoreRule, RestoreRule, rootRule
\* ------------------------------------------------------------------------

\* Rule objects live in the sequence `rules'; a reference to a rule is its
\* index there, and the reference 0 is rootRule, the one object every chain
\* ends in.
rootRule == 0

\* new IgnoreRule(mutatorNames, line, ignoreReason, previousRule)
IgnoreRule(mutatorNames, line, ignoreReason, previousRule) ==
  [mutatorNames |-> mutatorNames, line |-> line, ignoreReason |-> ignoreReason,
   previousRule |-> previousRule]

\* RestoreRule with a slip: the reason is passed on instead of undefined.
RestoreRule_WithReason(mutatorNames, line, previousRule) ==
  IgnoreRule(mutatorNames, line, Some(DEFAULT_REASON), previousRule)

\* new RestoreRule(mutatorNames, line, previousRule)
RestoreRule(mutatorNames, line, previousRule) ==
  IgnoreRule(mutatorNames, line, undefined, previousRule)

\* matches with a slip: the rule's line is not looked at.
matches_AnyLine(rule, mutatorName, line) ==
  \/ Includes(rule.mutatorNames, mutatorName)
  \/ Includes(rule.mutatorNames, WILDCARD)

\* matches with a slip: the wildcard is not looked for.
matches_NoWildcard(rule, mutatorName, line) ==
  /\ rule.line = undefined \/ rule.line = Some(line)
  /\ Includes(rule.mutatorNames, mutatorName)

\* IgnoreRule.matches
matches(rule, mutatorName, line) ==
  LET lineMatches == rule.line = undefined \/ rule.line = Some(line)
      mutatorMatches == \/ Includes(rule.mutatorNames, mutatorName)
                        \/ Includes(rule.mutatorNames, WILDCARD)
  IN lineMatches /\ mutatorMatches

RECURSIVE Rule_findIgnoreReason_SkipsRestore(_, _, _, _)
\* findIgnoreReason with a slip: a matching rule without a reason (a restore)
\* does not end the search.
Rule_findIgnoreReason_SkipsRestore(heap, ref, mutatorName, line) ==
  IF ref = rootRule THEN undefined
  ELSE IF matches(heap[ref], mutatorName, line) /\ IsDefined(heap[ref].ignoreReason)
  THEN heap[ref].ignoreReason
  ELSE Rule_findIgnoreReason_SkipsRestore(heap, heap[ref].previousRule, mutatorName, line)

RECURSIVE Rule_findIgnoreReason_RootAnswers(_, _, _, _)
\* findIgnoreReason with a slip: the root rule answers with the default
\* reason.
Rule_findIgnoreReason_RootAnswers(heap, ref, mutatorName, line) ==
  IF ref = rootRule THEN Some(DEFAULT_REASON)
  ELSE IF matches(heap[ref], mutatorName, line) THEN heap[ref].ignoreReason
  ELSE Rule_findIgnoreReason_RootAnswers(heap, heap[ref].previousRule, mutatorName, line)

RECURSIVE Rule_findIgnoreReason(_, _, _, _)
\* Rule.findIgnoreReason of the rule referred to by ref in the heap: rootRule
\* answers undefined, an IgnoreRule its own ignoreReason when it matches and
\* its previous rule's answer otherwise.
Rule_findIgnoreReason(heap, ref, mutatorName, line) ==
  IF ref = rootRule THEN undefined
  ELSE IF matches(heap[ref], mutatorName, line) THEN heap[ref].ignoreReason
  ELSE Rule_findIgnoreReason(heap, heap[ref].previousRule, mutatorName, line)

\* ------------------------------------------------------------------------
\* State
\* ------------------------------------------------------------------------

VARIABLES
  file,               \* the name of the file walked
  rules,              \* the IgnoreRule objects created so far
  currentIgnoreRule,  \* currentIgnoreRule of every DirectiveBookkeeper
  collected,          \* what the collector was given, in order
  applied,            \* history: per bookkeeper, the directives it made rules of
  lastCall            \* the last call: what was called and how it ended

vars == <<file, rules, currentIgnoreRule, collected, applied, lastCall>>

Bookkeepers == DOMAIN currentIgnoreRule

\* lastCall before any call is made.
NoCall == [op |-> "none", bookkeeper |-> << >>, node |-> << >>, allMutators |-> << >>, threw |-> FALSE, value |-> undefined]

\* ------------------------------------------------------------------------
\* DirectiveBookkeeper.processStrykerDirectives
\* ------------------------------------------------------------------------

\* mutators.split(',').map((mutator) => mutator.trim().toLowerCase())
MutatorNames(mutators) ==
  LET parts == Split(mutators) IN [i \in 1..Len(parts) |-> ToLowerCase(Trim(parts[i]))]

\* mutators.split(',').map((mutator) => mutator.trim()).filter((mutator) => mutator !== WILDCARD)
Directives(mutators) ==
  LET parts == Split(mutators)
      IsNotWildcard(mutator) == mutator # WILDCARD
  IN SelectSeq([i \in 1..Len(parts) |-> Trim(parts[i])], IsNotWildcard)

\* IsUnused with a slip: the names are compared as written.
IsUnused_CaseSensitive(directive, allMutators) ==
  ~Includes([i \in 1..Len(allMutators) |-> allMutators[i].name], directive)

\* !allMutators.map((x) => x.name.toLowerCase()).includes(directive.toLowerCase())
IsUnused(directive, allMutators) ==
  ~Includes([i \in 1..Len(allMutators) |-> ToLowerCase(allMutators[i].name)],
            ToLowerCase(directive))

\* What collector.collect is given for an unused directive: the mutant's
\* mutatorName and ignoreReason and the offset {line: -1, position: 0}.
UnusedMutant(directive, directiveType) ==
  [mutatorName |-> directive,
   ignoreReason |-> "Unused 'Stryker " \o directiveType \o "' directive",
   line |-> -1, position |-> 0]

\* The loop over `directives': the mutants collected for one match.
UnusedMutants(match, allMutators) ==
  LET Unused(directive) == IsUnused(directive, allMutators)
      unused == SelectSeq(Directives(match.mutators), Unused)
  IN [i \in 1..Len(unused) |-> UnusedMutant(unused[i], match.directiveType)]

\* Reason with a slip: the text is not trimmed.
Reason_Untrimmed(optionalReason) ==
  IF IsDefined(optionalReason) THEN ValueOf(optionalReason) ELSE DEFAULT_REASON

\* Reason with a slip: no default for a comment without a reason.
Reason_NoDefault(optionalReason) ==
  Trim(IF IsDefined(optionalReason) THEN ValueOf(optionalReason) ELSE "")

\* (optionalReason ?? DEFAULT_REASON).trim()
Reason(optionalReason) ==
  Trim(IF IsDefined(optionalReason) THEN ValueOf(optionalReason) ELSE DEFAULT_REASON)

\* The texts of all comments of all files.
CommentTexts ==
  UNION {{ValueOf(c)[i] : i \in 1..Len(ValueOf(c))} : c \in UNION Files \ {undefined}}

\* What the forEach callback computes from one comment and the registry
\* before it touches the bookkeeper: the match, mutatorNames, the mutants to
\* collect and reason.  << >> for a comment the expression does not match.
\* (A table, so that each text is parsed once per run of the model checker.)
Prepared ==
  [s \in CommentTexts, allMutators \in Registries |->
     LET m == Exec(s)
     IN IF m = << >> THEN << >>
        ELSE <<[match |-> m[1],
                mutatorNames |-> MutatorNames(m[1].mutators),
                unused |-> UnusedMutants(m[1], allMutators),
                reason |-> Reason(m[1].reason)]>>]

\* NewRule with a slip: a directive without scope is given the node's line
\* too.
NewRule_AlwaysAtLine(d, loc, current) ==
  IF d.match.directiveType = "disable"
  THEN IgnoreRule(d.mutatorNames, loc, Some(d.reason), current)
  ELSE RestoreRule(d.mutatorNames, loc, current)

\* NewRule with a slip: the rule is not linked to the current rule.
NewRule_Unlinked(d, loc, current) ==
  LET line == IF d.match.scope = Some("next-line") THEN loc ELSE undefined
  IN IF d.match.directiveType = "disable"
     THEN IgnoreRule(d.mutatorNames, line, Some(d.reason), rootRule)
     ELSE RestoreRule(d.mutatorNames, line, rootRule)

\* The rule the switch statement creates for one prepared directive, given
\* the node's location and the current rule.  Only the `next-line' cases
\* read node.loc.
NewRule(d, loc, current) ==
  LET line == IF d.match.scope = Some("next-line") THEN loc ELSE undefined
  IN IF d.match.directiveType = "disable"
     THEN IgnoreRule(d.mutatorNames, line, Some(d.reason), current)
     ELSE RestoreRule(d.mutatorNames, line, current)

\* Throws with a slip: node.loc?.start.line, which throws nothing and gives
\* undefined for a node without loc.
Throws_OptionalChaining(d, loc) == FALSE

\* node.loc!.start.line of a node without loc: a TypeError at run time.
Throws(d, loc) == d.match.scope = Some("next-line") /\ loc = undefined

\* The history's entry for a directive that was made a rule: the match, the
\* start line of the node it was a `next-line' directive of (undefined for a
\* directive without scope) and the reference of the rule made.
Applied(d, loc, ref) ==
  [directive |-> d.match,
   loc |-> IF d.match.scope = Some("next-line") THEN loc ELSE undefined,
   rule |-> ref]

\* ProcessDirective with a slip: a directive with an unused name is reported
\* and then dropped.
ProcessDirective_DropsUnknown(st, d, loc) ==
  IF Throws(d, loc)
  THEN [st EXCEPT !.collected = st.collected \o d.unused, !.threw = TRUE]
  ELSE IF d.unused # << >>
  THEN [st EXCEPT !.collected = st.collected \o d.unused]
  ELSE [st EXCEPT !.rules = Append(st.rules, NewRule(d, loc, st.current)),
                  !.current = Len(st.rules) + 1,
                  !.applied = Append(st.applied, Applied(d, loc, Len(st.rules) + 1))]

\* The body of the forEach callback for one prepared directive.  st holds
\* the rules, the bookkeeper's current rule, the collector's contents, the
\* bookkeeper's history and whether an exception has been thrown.
ProcessDirective(st, d, loc) ==
  LET collectedNow == st.collected \o d.unused
      rule == NewRule(d, loc, st.current)
  IN IF Throws(d, loc)
     THEN [st EXCEPT !.collected = collectedNow, !.threw = TRUE]
     ELSE [st EXCEPT !.collected = collectedNow,
                     !.rules = Append(st.rules, rule),
                     !.current = Len(st.rules) + 1,
                     !.applied = Append(st.applied, Applied(d, loc, Len(st.rules) + 1))]

RECURSIVE ForEach_LastFirst(_, _, _)
\* ForEach with a slip: the directives are taken from the last to the first.
ForEach_LastFirst(st, ds, loc) ==
  IF ds = << >> \/ st.threw THEN st
  ELSE ForEach_LastFirst(ProcessDirective(st, ds[Len(ds)], loc), SubSeq(ds, 1, Len(ds) - 1), loc)

RECURSIVE ForEach(_, _, _)
\* .forEach(...) over the prepared directives; an exception ends the loop.
ForEach(st, ds, loc) ==
  IF ds = << >> \/ st.threw THEN st
  ELSE ForEach(ProcessDirective(st, Head(ds), loc), Tail(ds), loc)

\* node.leadingComments?.map(regex.exec).filter(notEmpty), each match with
\* what the callback computes from it.
Matches(leadingComments, allMutators) ==
  IF ~IsDefined(leadingComments) THEN << >>
  ELSE LET comments == ValueOf(leadingComments)
           notEmpty(m) == m # << >>
           found == SelectSeq([i \in 1..Len(comments) |-> Prepared[comments[i], allMutators]],
                              notEmpty)
       IN [i \in 1..Len(found) |-> found[i][1]]

\* ProcessStrykerDirectives with a slip: currentIgnoreRule is a static field,
\* one for all bookkeepers.
ProcessStrykerDirectives_StaticHead(b, node, allMutators) ==
  LET ds == Matches(node.leadingComments, allMutators)
      st == ForEach([rules |-> rules, current |-> currentIgnoreRule[b],
                     collected |-> collected, applied |-> applied[b], threw |-> FALSE],
                    ds, node.loc)
  IN /\ Len(rules) + Len(ds) <= MaxRules
     /\ Len(st.collected) <= MaxCollected
     /\ rules' = st.rules
     /\ currentIgnoreRule' = [x \in Bookkeepers |-> st.current]
     /\ collected' = st.collected
     /\ applied' = [applied EXCEPT ![b] = st.applied]
     /\ lastCall' = [op |-> "processStrykerDirectives", bookkeeper |-> Some(b),
                     node |-> Some(node), allMutators |-> allMutators,
                     threw |-> st.threw, value |-> undefined]
     /\ UNCHANGED file

\* A call of DirectiveBookkeeper.processStrykerDirectives on bookkeeper b.
ProcessStrykerDirectives(b, node, allMutators) ==
  LET ds == Matches(node.leadingComments, allMutators)
      st == ForEach([rules |-> rules, current |-> currentIgnoreRule[b],
                     collected |-> collected, applied |-> applied[b], threw |-> FALSE],
                    ds, node.loc)
  IN /\ Len(rules) + Len(ds) <= MaxRules
     /\ Len(st.collected) <= MaxCollected
     /\ rules' = st.rules
     /\ currentIgnoreRule' = [currentIgnoreRule EXCEPT ![b] = st.current]
     /\ collected' = st.collected
     /\ applied' = [applied EXCEPT ![b] = st.applied]
     /\ lastCall' = [op |-> "processStrykerDirectives", bookkeeper |-> Some(b),
                     node |-> Some(node), allMutators |-> allMutators, threw |-> st.threw, value |-> undefined]
     /\ UNCHANGED file

\* ------------------------------------------------------------------------
\* DirectiveBookkeeper.findIgnoreReason
\* ------------------------------------------------------------------------

\* The value DirectiveBookkeeper.findIgnoreReason(line, mutatorName) returns
\* for a bookkeeper whose current rule is `current'.
findIgnoreReason(heap, current, line, mutatorName) ==
  Rule_findIgnoreReason(heap, current, ToLowerCase(mutatorName), line)

\* FindIgnoreReason with a slip: the search walks by moving the bookkeeper's
\* own current rule past a rule that does not match.
FindIgnoreReason_MovesHead(b, line, mutatorName) ==
  /\ lastCall' = [op |-> "findIgnoreReason", bookkeeper |-> Some(b), node |-> << >>, allMutators |-> << >>,
                  threw |-> FALSE,
                  value |-> findIgnoreReason(rules, currentIgnoreRule[b], line, mutatorName)]
  /\ currentIgnoreRule' =
       [currentIgnoreRule EXCEPT ![b] =
          IF @ # rootRule /\ ~matches(rules[@], ToLowerCase(mutatorName), line)
          THEN rules[@].previousRule ELSE @]
  /\ UNCHANGED <<file, rules, collected, applied>>

\* A call of DirectiveBookkeeper.findIgnoreReason: it reads the chain and
\* assigns to its own parameter only.
FindIgnoreReason(b, line, mutatorName) ==
  /\ lastCall' = [op |-> "findIgnoreReason", bookkeeper |-> Some(b), node |-> << >>, allMutators |-> << >>,
                  threw |-> FALSE,
                  value |-> findIgnoreReason(rules, currentIgnoreRule[b], line, mutatorName)]
  /\ UNCHANGED <<file, rules, currentIgnoreRule, collected, applied>>

\* ------------------------------------------------------------------------
\* Specification
\* ------------------------------------------------------------------------

\* A new DirectiveBookkeeper per file: currentIgnoreRule = rootRule.
Init ==
  /\ file \in {"ResolutionFile", "NamesFile", "MalformedFile"}
  /\ rules = << >>
  /\ currentIgnoreRule = [b \in {"A"} |-> rootRule]
  /\ collected = << >>
  /\ applied = [b \in {"A"} |-> << >>]
  /\ lastCall = NoCall

Next ==
  \/ \E b \in Bookkeepers, comments \in FileNamed[file], loc \in Locs, allMutators \in Registries :
        ProcessStrykerDirectives(b, [leadingComments |-> comments, loc |-> loc], allMutators)
  \/ \E b \in Bookkeepers, line \in QueryLines, mutatorName \in QueryNames :
        FindIgnoreReason(b, line, mutatorName)

Spec == Init /\ [][Next]_vars

\* Two DirectiveBookkeepers, as for two files instrumented in one process;
\* their chains end in the one rootRule and their rules live in one heap.
InitTwo ==
  /\ file = "SharedFile"
  /\ rules = << >>
  /\ currentIgnoreRule = [b \in {"A", "B"} |-> rootRule]
  /\ collected = << >>
  /\ applied = [b \in {"A", "B"} |-> << >>]
  /\ lastCall = NoCall

SpecTwo == InitTwo /\ [][Next]_vars

\* ------------------------------------------------------------------------
\* Properties
\* ------------------------------------------------------------------------

\* The largest element of a non-empty set of numbers.
Max(S) == CHOOSE i \in S : \A j \in S : j <= i

\* The matches of all comment texts of all files.
AllMatches == {Exec(s)[1] : s \in {t \in CommentTexts : Exec(t) # << >>}}

\* The name tokens of a directive: the pieces of its name list, trimmed.
NameTokens ==
  [m \in AllMatches |-> LET parts == Split(m.mutators)
                        IN [i \in 1..Len(parts) |-> Trim(parts[i])]]

\* The largest number of name tokens of a directive.
MaxTokens == Max({Len(NameTokens[m]) : m \in AllMatches})

\* All name tokens of all directives.
AllTokens == UNION {{NameTokens[m][k] : k \in 1..Len(NameTokens[m])} : m \in AllMatches}

\* The name tokens and the names of queries and registries, case-folded.
Folded == [s \in AllTokens \cup Names |-> LowerCaseLetterwise(s)]

\* A name case-folded.
Fold(s) == IF s \in DOMAIN Folded THEN Folded[s] ELSE LowerCaseLetterwise(s)

\* Two names that differ in letter casing at most.
SameName(n1, n2) == Fold(n1) = Fold(n2)

\* What bookkeeper b answers to findIgnoreReason(line, mutatorName) now.
Answer(b, line, mutatorName) ==
  findIgnoreReason(rules, currentIgnoreRule[b], line, mutatorName)

\* Whether the rule made of history entry e matches (line, mutatorName).
Covers(e, line, mutatorName) == matches(rules[e.rule], ToLowerCase(mutatorName), line)

\* The effect of the rule made of history entry e: its reason for a
\* disable, absent for a restore.
EffectOf(e) ==
  IF e.directive.directiveType = "disable" THEN rules[e.rule].ignoreReason ELSE undefined

IsDisable(e) == e.directive.directiveType = "disable"

IsRestore(e) == e.directive.directiveType = "restore"

IsFileWide(e) == e.directive.scope = undefined

IsNextLine(e) == e.directive.scope = Some("next-line")

\* The effect of the rule pushed last among those bookkeeper b pushed that
\* match (line, mutatorName); absent when none matches.
NewestMatchingEffect(b, line, mutatorName) ==
  LET h == applied[b]
      matching == {i \in 1..Len(h) : Covers(h[i], line, mutatorName)}
  IN IF matching = {} THEN undefined ELSE EffectOf(h[Max(matching)])

\* C1: after any sequence of processStrykerDirectives calls,
\* findIgnoreReason(line, mutatorName) returns the effect of the most recently
\* pushed rule that matches (line, mutatorName) -- its reason for a disable,
\* absent for a restore -- and absent when no pushed rule matches, whatever
\* the scopes of the matching rules.
C1_RecencyDecides ==
  \A b \in Bookkeepers, line \in QueryLines, mutatorName \in QueryNames :
    Answer(b, line, mutatorName) = NewestMatchingEffect(b, line, mutatorName)

\* C1's case: a file-wide disable, then a line-scoped restore, then a
\* file-wide disable; at the restore's line one name is decided by the
\* line-scoped restore over the older file-wide disable, another by the newer
\* file-wide disable over the older line-scoped restore.
C1_Witness ==
  \E b \in Bookkeepers, line \in QueryLines, n1, n2 \in QueryNames :
    LET h == applied[b]
    IN /\ Len(h) = 3
       /\ IsDisable(h[1]) /\ IsFileWide(h[1])
       /\ IsRestore(h[2]) /\ IsNextLine(h[2])
       /\ IsDisable(h[3]) /\ IsFileWide(h[3])
       /\ Covers(h[1], line, n1) /\ Covers(h[2], line, n1) /\ ~Covers(h[3], line, n1)
       /\ Answer(b, line, n1) = undefined
       /\ Covers(h[2], line, n2) /\ Covers(h[3], line, n2)
       /\ Answer(b, line, n2) = Some("known issue")

\* A file-wide `disable all'.
IsDisableAll(e) ==
  IsDisable(e) /\ IsFileWide(e) /\ Includes(NameTokens[e.directive], WILDCARD)

\* A file-wide `restore X' for one mutator name X.
IsRestoreOne(e) ==
  /\ IsRestore(e) /\ IsFileWide(e)
  /\ Len(NameTokens[e.directive]) = 1
  /\ ~SameName(NameTokens[e.directive][1], WILDCARD)

\* C2: after a file-wide `disable all' followed by a file-wide `restore X',
\* findIgnoreReason(line, X) is absent and findIgnoreReason(line, Y) is the
\* reason of the `disable all' rule for every other mutator name Y, at every
\* line.
C2_RestoreAfterDisableAll ==
  \A b \in Bookkeepers :
    LET h == applied[b]
        n == Len(h)
    IN (n >= 2 /\ IsDisableAll(h[n - 1]) /\ IsRestoreOne(h[n])) =>
         \A line \in QueryLines, mutatorName \in QueryNames :
           IF SameName(mutatorName, NameTokens[h[n].directive][1])
           THEN Answer(b, line, mutatorName) = undefined
           ELSE /\ IsDefined(Answer(b, line, mutatorName))
                /\ Answer(b, line, mutatorName) = rules[h[n - 1].rule].ignoreReason

\* C2's case: `disable all' then `restore StringLiteral' have been processed;
\* StringLiteral is not suppressed, BooleanLiteral is.
C2_Witness ==
  \E b \in Bookkeepers :
    LET h == applied[b]
        n == Len(h)
    IN /\ n >= 2 /\ IsDisableAll(h[n - 1]) /\ IsRestoreOne(h[n])
       /\ Answer(b, 1, "StringLiteral") = undefined
       /\ Answer(b, 1, "BooleanLiteral") = Some("Ignored using a comment")

\* The history entries a step adds for bookkeeper b.
Added(b) == SubSeq(applied'[b], Len(applied[b]) + 1, Len(applied'[b]))

\* C3: a `next-line' directive processed on a node whose start line is L
\* leaves findIgnoreReason(line, name) as it was for every line other than L
\* and every name.
C3_NextLineOnlyItsLine ==
  [][\A b \in Bookkeepers :
       (Added(b) # << >> /\ \A i \in 1..Len(Added(b)) : IsNextLine(Added(b)[i])) =>
         \A line \in QueryLines \ {ValueOf(Added(b)[1].loc)}, mutatorName \in QueryNames :
           findIgnoreReason(rules', currentIgnoreRule'[b], line, mutatorName)
             = findIgnoreReason(rules, currentIgnoreRule[b], line, mutatorName)]_vars

\* C3's case: the newest rule comes from a `next-line' directive at line L;
\* it changed an answer at L, and at another line an answer the older rules
\* give stands.
C3_Witness ==
  \E b \in Bookkeepers, mutatorName \in QueryNames, other \in QueryLines :
    LET h == applied[b]
        e == h[Len(h)]
    IN /\ Len(h) >= 2
       /\ IsNextLine(e)
       /\ currentIgnoreRule[b] = e.rule
       /\ other # ValueOf(e.loc)
       /\ Answer(b, ValueOf(e.loc), mutatorName)
            # findIgnoreReason(rules, rules[e.rule].previousRule, ValueOf(e.loc), mutatorName)
       /\ IsDefined(Answer(b, other, mutatorName))

\* Whether history entry i of bookkeeper b is the newest that matches
\* (line, mutatorName).
IsNewestMatching(b, i, line, mutatorName) ==
  /\ Covers(applied[b][i], line, mutatorName)
  /\ \A j \in (i + 1)..Len(applied[b]) : ~Covers(applied[b][j], line, mutatorName)

\* Whether the directive of history entry e lists mutatorName (in any casing).
Lists(e, mutatorName) ==
  \E k \in 1..Len(NameTokens[e.directive]) : SameName(NameTokens[e.directive][k], mutatorName)

\* The reason text of every directive that has one, trimmed.
TrimmedReason ==
  [m \in {x \in AllMatches : IsDefined(x.reason)} |-> Trim(ValueOf(m.reason))]

\* C4: after a file-scoped `disable M: R' is processed, findIgnoreReason(line, M)
\* returns R trimmed at every line, through any later calls, as long as no
\* rule pushed later matches (line, M).
C4_FileWideDisableLasts ==
  \A b \in Bookkeepers :
    \A i \in 1..Len(applied[b]) :
      LET e == applied[b][i]
      IN (IsDisable(e) /\ IsFileWide(e) /\ IsDefined(e.directive.reason)) =>
           \A line \in QueryLines, mutatorName \in QueryNames :
             ( /\ Lists(e, mutatorName)
               /\ \A j \in (i + 1)..Len(applied[b]) : ~Covers(applied[b][j], line, mutatorName) )
             => Answer(b, line, mutatorName) = Some(TrimmedReason[e.directive])

\* C4's case: `disable StringLiteral: known issue ' was processed, two
\* directives were processed after it, neither matching (2, StringLiteral),
\* and the answer there is still "known issue".
C4_Witness ==
  \E b \in Bookkeepers :
    LET h == applied[b]
    IN /\ Len(h) = 3
       /\ IsDisable(h[1]) /\ IsFileWide(h[1])
       /\ h[1].directive.reason = Some(" known issue ")
       /\ Lists(h[1], "StringLiteral")
       /\ ~Covers(h[2], 2, "StringLiteral") /\ ~Covers(h[3], 2, "StringLiteral")
       /\ Covers(h[3], 1, "StringLiteral")
       /\ Answer(b, 2, "StringLiteral") = Some("known issue")

\* The lines the directive of history entry e covers: every line without a
\* scope, the node's line with `next-line'.
LinesOf(e) == IF IsFileWide(e) THEN QueryLines ELSE {ValueOf(e.loc)}

\* C5: a rule made of a directive that lists the wildcard `all' matches every
\* mutator name at every line the directive covers, and while it is the
\* newest matching rule its effect is the answer for every name.
C5_WildcardMatchesEveryName ==
  \A b \in Bookkeepers :
    \A i \in 1..Len(applied[b]) :
      LET e == applied[b][i]
      IN Includes(NameTokens[e.directive], WILDCARD) =>
           \A line \in LinesOf(e), mutatorName \in QueryNames :
             /\ Covers(e, line, mutatorName)
             /\ IsNewestMatching(b, i, line, mutatorName)
                  => Answer(b, line, mutatorName) = EffectOf(e)

\* C5's case: `disable all' without scope, then `restore next-line all' at a
\* line; a name no directive lists is suppressed at the other line and not
\* at that line.
C5_Witness ==
  \E b \in Bookkeepers, other \in QueryLines :
    LET h == applied[b]
    IN /\ Len(h) = 2
       /\ IsDisableAll(h[1])
       /\ IsRestore(h[2]) /\ IsNextLine(h[2]) /\ Includes(NameTokens[h[2].directive], WILDCARD)
       /\ other # ValueOf(h[2].loc)
       /\ Answer(b, ValueOf(h[2].loc), "ArithmeticOperator") = undefined
       /\ Answer(b, other, "ArithmeticOperator") = Some("Ignored using a comment")

\* C6: a disable directive whose comment gives no reason makes a rule whose
\* ignore reason is exactly "Ignored using a comment", and a query that rule
\* decides returns that string.
C6_DefaultReason ==
  \A b \in Bookkeepers :
    \A i \in 1..Len(applied[b]) :
      LET e == applied[b][i]
      IN (IsDisable(e) /\ ~IsDefined(e.directive.reason)) =>
           /\ rules[e.rule].ignoreReason = Some("Ignored using a comment")
           /\ \A line \in QueryLines, mutatorName \in QueryNames :
                IsNewestMatching(b, i, line, mutatorName)
                  => Answer(b, line, mutatorName) = Some("Ignored using a comment")

\* C6's case: `disable next-line StringLiteral', without a reason, is the
\* newest rule, after a directive that had restored StringLiteral; the answer
\* at its line is the default reason.
C6_Witness ==
  \E b \in Bookkeepers :
    LET h == applied[b]
        e == h[Len(h)]
    IN /\ Len(h) >= 2
       /\ IsDisable(e) /\ IsNextLine(e) /\ ~IsDefined(e.directive.reason)
       /\ findIgnoreReason(rules, rules[e.rule].previousRule, ValueOf(e.loc), "StringLiteral")
            = undefined
       /\ Answer(b, ValueOf(e.loc), "StringLiteral") = Some("Ignored using a comment")

\* Whether the registry has a mutator of this name, in any casing.
KnownMutator(token, allMutators) ==
  \E i \in 1..Len(allMutators) : SameName(allMutators[i].name, token)

\* The ignore reason of the diagnostic for a directive of the given kind.
UnusedMessage(kind) ==
  IF kind = "disable" THEN "Unused 'Stryker disable' directive"
  ELSE "Unused 'Stryker restore' directive"

\* What a step gives the collector.
NewlyCollected == SubSeq(collected', Len(collected) + 1, Len(collected'))

\* The directives a processStrykerDirectives step of bookkeeper b may have
\* processed: those it made rules of and, when it threw, one more
\* `next-line' directive, which it reported on before it threw.
ProcessedDirectives(b) ==
  LET made == [i \in 1..Len(Added(b)) |-> Added(b)[i].directive]
  IN IF lastCall'.threw
     THEN {Append(made, m) : m \in {x \in AllMatches : x.scope = Some("next-line")}}
     ELSE {made}

\* How many diagnostics the directives ds are to produce for the token and
\* the kind: one per occurrence of the token in a directive of that kind,
\* none for the wildcard or for a name of the registry.
ExpectedCount(ds, token, kind, allMutators) ==
  IF token = WILDCARD \/ KnownMutator(token, allMutators) THEN 0
  ELSE Cardinality({ik \in (1..Len(ds)) \X (1..MaxTokens) :
                      /\ ds[ik[1]].directiveType = kind
                      /\ ik[2] <= Len(NameTokens[ds[ik[1]]])
                      /\ NameTokens[ds[ik[1]]][ik[2]] = token})

\* How many of the diagnostics are for the token and the kind.
CollectedCount(diagnostics, token, kind) ==
  Cardinality({i \in 1..Len(diagnostics) :
                 /\ diagnostics[i].mutatorName = token
                 /\ diagnostics[i].ignoreReason = UnusedMessage(kind)})

\* Whether the diagnostics are those the directives ds are to produce.
DiagnosticsAgree(diagnostics, ds, allMutators) ==
  /\ \A i \in 1..Len(diagnostics) :
       \E kind \in {"disable", "restore"} : diagnostics[i].ignoreReason = UnusedMessage(kind)
  /\ \A kind \in {"disable", "restore"} :
       \A token \in {diagnostics[i].mutatorName : i \in 1..Len(diagnostics)}
                     \cup UNION {{NameTokens[ds[i]][k] : k \in 1..Len(NameTokens[ds[i]])} :
                                   i \in 1..Len(ds)} :
         CollectedCount(diagnostics, token, kind) = ExpectedCount(ds, token, kind, allMutators)

\* C7: for each directive processed the collector receives exactly one
\* diagnostic per name token that is not the wildcard and not
\* (case-insensitively) a mutator of the registry, with ignore reason
\* `Unused 'Stryker <kind>' directive', and none for a token of the registry;
\* a call throws only at a `next-line' directive, never for an unknown name.
C7_OneDiagnosticPerUnknownName ==
  [][lastCall'.op = "processStrykerDirectives" =>
       \E b \in Bookkeepers :
         /\ \A o \in Bookkeepers \ {b} : applied'[o] = applied[o]
         /\ LET diagnostics == NewlyCollected
            IN \E ds \in ProcessedDirectives(b) :
                 DiagnosticsAgree(diagnostics, ds, lastCall'.allMutators)]_vars

\* C7's case: `disable stringliteral, Typofied' and then `restore next-line
\* booleanliteral, Foo' were processed with StringLiteral and BooleanLiteral
\* in the registry: one diagnostic for Typofied, one for Foo, none for the
\* two names of the registry.
C7_Witness ==
  /\ lastCall.op = "processStrykerDirectives" /\ ~lastCall.threw
  /\ KnownMutator("booleanliteral", lastCall.allMutators)
  /\ \E b \in Bookkeepers :
       /\ Len(applied[b]) = 2
       /\ NameTokens[applied[b][1].directive] = <<"stringliteral", "Typofied">>
       /\ NameTokens[applied[b][2].directive] = <<"booleanliteral", "Foo">>
  /\ collected =
       << [mutatorName |-> "Typofied", ignoreReason |-> "Unused 'Stryker disable' directive",
           line |-> -1, position |-> 0],
          [mutatorName |-> "Foo", ignoreReason |-> "Unused 'Stryker restore' directive",
           line |-> -1, position |-> 0] >>

\* C8: a name token that acts as the wildcard for matching -- `all' in any
\* letter casing, since names are case-folded before matching -- is never
\* reported as an unused directive.
C8_WildcardNeverUnused ==
  \A i \in 1..Len(collected) : ~SameName(collected[i].mutatorName, WILDCARD)

\* The heap with the rule of history entry e listing only the names of its
\* directive that were not reported: the wildcard and the registry's names.
WithoutUnknown(heap, e, allMutators) ==
  LET Kept(token) == token = WILDCARD \/ KnownMutator(token, allMutators)
      kept == SelectSeq(NameTokens[e.directive], Kept)
  IN [heap EXCEPT ![e.rule].mutatorNames = [i \in 1..Len(kept) |-> Fold(kept[i])]]

\* C9: an unknown mutator name is not fatal: the call that reported it has
\* still pushed the directive's rule, and for the known names the directive
\* lists that rule decides as it would had the unknown names not been listed.
C9_UnknownNameNotFatal ==
  [][( /\ lastCall'.op = "processStrykerDirectives"
       /\ ~lastCall'.threw
       /\ NewlyCollected # << >> ) =>
       \E b \in Bookkeepers :
         /\ Added(b) # << >>
         /\ Len(rules') = Len(rules) + Len(Added(b))
         /\ currentIgnoreRule'[b] = Added(b)[Len(Added(b))].rule
         /\ \A i \in 1..Len(Added(b)) :
              \A line \in QueryLines, mutatorName \in QueryNames :
                ( /\ Lists(Added(b)[i], mutatorName)
                  /\ KnownMutator(mutatorName, lastCall'.allMutators) ) =>
                  /\ matches(rules'[Added(b)[i].rule], ToLowerCase(mutatorName), line)
                       = (line \in LinesOf(Added(b)[i]))
                  /\ findIgnoreReason(rules', Added(b)[i].rule, line, mutatorName)
                       = findIgnoreReason(WithoutUnknown(rules', Added(b)[i], lastCall'.allMutators),
                                          Added(b)[i].rule, line, mutatorName)]_vars

\* C9's case: `disable stringliteral, Typofied' was processed; Typofied was
\* reported, and StringLiteral, not suppressed before, is suppressed.
C9_Witness ==
  \E b \in Bookkeepers :
    LET h == applied[b]
        e == h[Len(h)]
    IN /\ lastCall.op = "processStrykerDirectives" /\ ~lastCall.threw
       /\ Len(h) >= 1
       /\ currentIgnoreRule[b] = e.rule
       /\ NameTokens[e.directive] = <<"stringliteral", "Typofied">>
       /\ collected # << >>
       /\ collected[Len(collected)].mutatorName = "Typofied"
       /\ KnownMutator("StringLiteral", lastCall.allMutators)
       /\ findIgnoreReason(rules, rules[e.rule].previousRule, 1, "StringLiteral") = undefined
       /\ Answer(b, 1, "StringLiteral") = Some("Ignored using a comment")

\* The directives that differ from m in the letter casing of names only.
CaseVariants(m) ==
  {x \in AllMatches :
     /\ x.directiveType = m.directiveType /\ x.scope = m.scope /\ x.reason = m.reason
     /\ Len(NameTokens[x]) = Len(NameTokens[m])
     /\ \A k \in 1..Len(NameTokens[m]) : SameName(NameTokens[x][k], NameTokens[m][k])}

\* The names, case-folded, of a sequence of diagnostics.
FoldedNames(mutants) == {Fold(mutants[i].mutatorName) : i \in 1..Len(mutants)}

\* What processStrykerDirectives computes of every directive and registry:
\* the rule's names and the names, case-folded, reported as unused.
OfDirective ==
  [m \in AllMatches, allMutators \in Registries |->
     [mutatorNames |-> MutatorNames(m.mutators),
      unused |-> FoldedNames(UnusedMutants(m, allMutators))]]

\* Whether processing directive v in the place of the directive of the one
\* history entry e a step added gives the same answers to all queries and
\* the same names reported as unused.
SameAsVariant(b, e, v) ==
  /\ \A line \in QueryLines, mutatorName \in QueryNames :
       findIgnoreReason([rules' EXCEPT ![e.rule].mutatorNames =
                                         OfDirective[v, lastCall'.allMutators].mutatorNames],
                        currentIgnoreRule'[b], line, mutatorName)
         = findIgnoreReason(rules', currentIgnoreRule'[b], line, mutatorName)
  /\ OfDirective[v, lastCall'.allMutators].unused = FoldedNames(NewlyCollected)

\* The pairs of query names that differ in letter casing only.
CasingPairs == {p \in QueryNames \X QueryNames : p[1] # p[2] /\ SameName(p[1], p[2])}

\* Whether the answers to two queries that differ in the letter casing of
\* the name only are the same.
SameForQueryCasing ==
  \A b \in Bookkeepers, line \in QueryLines, p \in CasingPairs :
    Answer(b, line, p[1]) = Answer(b, line, p[2])

\* C10: mutator-name matching is case-insensitive on both sides: writing a
\* name of a directive or of a query in another letter casing changes no
\* query result and not the set of names reported as unused.
C10_CaseInsensitive ==
  [][ /\ SameForQueryCasing'
      /\ \A b \in Bookkeepers :
           ( /\ lastCall'.op = "processStrykerDirectives" /\ ~lastCall'.threw
             /\ Len(Added(b)) = 1 ) =>
             \A v \in CaseVariants(Added(b)[1].directive) : SameAsVariant(b, Added(b)[1], v) ]_vars

\* C10 for the directives that do not list the wildcard: it holds of them.
C10_ExceptWildcard ==
  [][ /\ SameForQueryCasing'
      /\ \A b \in Bookkeepers :
           ( /\ lastCall'.op = "processStrykerDirectives" /\ ~lastCall'.threw
             /\ Len(Added(b)) = 1
             /\ ~Lists(Added(b)[1], WILDCARD) ) =>
             \A v \in CaseVariants(Added(b)[1].directive) : SameAsVariant(b, Added(b)[1], v) ]_vars

\* C11: findIgnoreReason is a pure query: a call of it leaves the current
\* rule of every bookkeeper, every rule and the collector as they were, and
\* so the result of every query (line, mutatorName) is the same after it as
\* before it, whatever queries are made in between.
C11_QueryIsPure ==
  [][lastCall'.op = "findIgnoreReason" =>
       /\ currentIgnoreRule' = currentIgnoreRule
       /\ rules' = rules
       /\ collected' = collected
       /\ \A b \in Bookkeepers, line \in QueryLines, mutatorName \in QueryNames :
            findIgnoreReason(rules', currentIgnoreRule'[b], line, mutatorName)
              = Answer(b, line, mutatorName)]_vars

\* C11's case: a query was answered with a reason by a rule that is not the
\* newest one, so the search went past a rule.
C11_Witness ==
  \E b \in Bookkeepers :
    /\ lastCall.op = "findIgnoreReason"
    /\ IsDefined(lastCall.value)
    /\ currentIgnoreRule[b] # rootRule
    /\ rules[currentIgnoreRule[b]].ignoreReason # lastCall.value
    /\ rules[currentIgnoreRule[b]].previousRule # rootRule

\* Comment texts that are no directives: other tools' comments, and texts
\* the directive grammar does not accept for two leading blanks, a keyword
\* in another casing or unknown, or no names.
NotDirectives ==
  { " istanbul ignore next", "  Stryker disable all", " stryker disable all",
    " Stryker Disable all", " Stryker disable", " Stryker enable all",
    " Stryker disable: reason" }

\* Whether a node has no leading comments or no directive among them.
NoDirective(node) ==
  \/ node.leadingComments = undefined
  \/ \A i \in 1..Len(ValueOf(node.leadingComments)) :
       ValueOf(node.leadingComments)[i] \in NotDirectives

\* C12: processing a node that has no leading comments, or none that is a
\* directive, is silently ignored: no rule is pushed and the current rule
\* stays, nothing is collected, nothing is thrown (also for a node without
\* location), and every query answers as before the call.
C12_NonDirectiveIgnored ==
  [][( /\ lastCall'.op = "processStrykerDirectives"
       /\ NoDirective(ValueOf(lastCall'.node)) ) =>
       /\ ~lastCall'.threw
       /\ rules' = rules
       /\ currentIgnoreRule' = currentIgnoreRule
       /\ collected' = collected
       /\ \A b \in Bookkeepers, line \in QueryLines, mutatorName \in QueryNames :
            findIgnoreReason(rules', currentIgnoreRule'[b], line, mutatorName)
              = Answer(b, line, mutatorName)]_vars

\* C12's case: with a disable in force, a node without location whose two
\* comments miss the grammar by the casing of a keyword was processed.
C12_Witness ==
  \E b \in Bookkeepers :
    /\ lastCall.op = "processStrykerDirectives"
    /\ ValueOf(lastCall.node).loc = undefined
    /\ ValueOf(lastCall.node).leadingComments
         = Some(<<" stryker disable all", " Stryker Disable all">>)
    /\ ~lastCall.threw
    /\ currentIgnoreRule[b] # rootRule
    /\ Answer(b, 1, "StringLiteral") = Some("Ignored using a comment")

\* The directives among the leading comments of the node of the call a
\* step makes, in the comments' order.
DirectivesOfCall == Matches(ValueOf(lastCall'.node).leadingComments, lastCall'.allMutators)

\* The positions of the `next-line' directives among them.
ScopedOfCall ==
  {i \in 1..Len(DirectivesOfCall) : DirectivesOfCall[i].match.scope = Some("next-line")}

\* The smallest element of a non-empty set of numbers.
Min(S) == CHOOSE i \in S : \A j \in S : i <= j

\* C13 as claimed: processing a directive comment on a node that lacks
\* location information throws and pushes no rule, whatever the directive's
\* kind and scope.
C13_MissingLocationFatal ==
  [][( /\ lastCall'.op = "processStrykerDirectives"
       /\ ValueOf(lastCall'.node).loc = undefined
       /\ DirectivesOfCall # << >> ) =>
       /\ lastCall'.threw
       /\ rules' = rules]_vars

\* C13, amended: processing a `next-line' directive comment on a node that
\* lacks location information is a fatal error, whatever the directive's
\* kind: the call throws at the node's first such directive and pushes no
\* rule for it or for a later comment.  A directive without scope does not
\* read the location: on such a node it throws nothing and its rule, which
\* has no line, is pushed.
C13_NextLineWithoutLocationFatal ==
  [][( /\ lastCall'.op = "processStrykerDirectives"
       /\ ValueOf(lastCall'.node).loc = undefined ) =>
       /\ lastCall'.threw = (ScopedOfCall # {})
       /\ Len(rules') - Len(rules)
            = IF ScopedOfCall = {} THEN Len(DirectivesOfCall) ELSE Min(ScopedOfCall) - 1
       /\ \A r \in Len(rules) + 1 .. Len(rules') :
            /\ rules'[r].line = undefined
            /\ DirectivesOfCall[r - Len(rules)].match.scope = undefined
            /\ rules'[r].mutatorNames = DirectivesOfCall[r - Len(rules)].mutatorNames]_vars

\* C13's case: a node without location carried a directive without scope
\* and then a `restore next-line' one; the first was made the current rule,
\* the second threw.
C13_Witness ==
  \E b \in Bookkeepers :
    /\ lastCall.op = "processStrykerDirectives"
    /\ lastCall.threw
    /\ ValueOf(lastCall.node).loc = undefined
    /\ ValueOf(lastCall.node).leadingComments
         = Some(<<" Stryker disable BooleanLiteral,StringLiteral:both",
                  " Stryker restore next-line BooleanLiteral">>)
    /\ currentIgnoreRule[b] = Len(rules)
    /\ rules[Len(rules)].ignoreReason = Some("both")
    /\ rules[Len(rules)].line = undefined

RECURSIVE UnusedOfFirst(_, _)
\* The diagnostics of the first k of the directives ds, in their order.
UnusedOfFirst(ds, k) ==
  IF k = 0 THEN << >> ELSE UnusedOfFirst(ds, k - 1) \o ds[k].unused

\* Which of the n rules a step pushed match (line, mutatorName), by their
\* position among the directives of the call.
PushedMatching(n, line, mutatorName) ==
  {i \in 1..n : matches(rules'[Len(rules) + i], ToLowerCase(mutatorName), line)}

\* C14: the directive comments of one node are each applied as a rule of
\* their own in the comments' order: the rule of the i-th directive is pushed
\* on that of the (i-1)-th, the last one pushed is the current rule, and for
\* every (line, mutatorName) the latest comment whose rule matches decides.
\* The diagnostics of a directive are collected before its rule is pushed:
\* when the call throws at a directive, the diagnostics of that directive
\* have been collected and its rule has not been pushed.
C14_CommentsInOrder ==
  [][lastCall'.op = "processStrykerDirectives" =>
       LET b == ValueOf(lastCall'.bookkeeper)
           ds == DirectivesOfCall
           n == Len(rules') - Len(rules)
       IN /\ Len(Added(b)) = n
          /\ n = IF lastCall'.threw THEN Min(ScopedOfCall) - 1 ELSE Len(ds)
          /\ \A i \in 1..n :
               /\ Added(b)[i].directive = ds[i].match
               /\ Added(b)[i].rule = Len(rules) + i
               /\ rules'[Len(rules) + i].mutatorNames = ds[i].mutatorNames
               /\ rules'[Len(rules) + i].previousRule
                    = IF i = 1 THEN currentIgnoreRule[b] ELSE Len(rules) + i - 1
          /\ currentIgnoreRule'[b] = IF n = 0 THEN currentIgnoreRule[b] ELSE Len(rules')
          /\ \A line \in QueryLines, mutatorName \in QueryNames :
               findIgnoreReason(rules', currentIgnoreRule'[b], line, mutatorName)
                 = IF PushedMatching(n, line, mutatorName) = {}
                   THEN Answer(b, line, mutatorName)
                   ELSE rules'[Len(rules) + Max(PushedMatching(n, line, mutatorName))].ignoreReason
          /\ NewlyCollected = UnusedOfFirst(ds, IF lastCall'.threw THEN n + 1 ELSE n)]_vars

\* C14's case: a node at line 1 carried `disable BooleanLiteral,StringLiteral'
\* and then `restore next-line BooleanLiteral'; both rules match
\* (1, BooleanLiteral) and the later comment's restore decides there, the
\* earlier comment's disable at line 2.
C14_Witness ==
  \E b \in Bookkeepers :
    /\ lastCall.op = "processStrykerDirectives" /\ ~lastCall.threw
    /\ ValueOf(lastCall.node).loc = Some(1)
    /\ ValueOf(lastCall.node).leadingComments
         = Some(<<" Stryker disable BooleanLiteral,StringLiteral:both",
                  " Stryker restore next-line BooleanLiteral">>)
    /\ currentIgnoreRule[b] = Len(rules)
    /\ rules[Len(rules)].previousRule = Len(rules) - 1
    /\ matches(rules[Len(rules)], "booleanliteral", 1)
    /\ matches(rules[Len(rules) - 1], "booleanliteral", 1)
    /\ Answer(b, 1, "BooleanLiteral") = undefined
    /\ Answer(b, 2, "BooleanLiteral") = Some("both")

\* C14's other case: a node without location carried `disable Typofied' and
\* then `restore next-line Foo, all'; the diagnostics of both were collected
\* in the comments' order, the first rule was pushed and the second was not.
C14_WitnessThrow ==
  /\ lastCall.op = "processStrykerDirectives" /\ lastCall.threw
  /\ Len(collected) >= 2
  /\ collected[Len(collected) - 1].mutatorName = "Typofied"
  /\ collected[Len(collected)].mutatorName = "Foo"
  /\ rules[Len(rules)].ignoreReason = Some("a")

\* What the switch statement makes of every directive: the rule's names
\* and the reason.
RuleOfDirective ==
  [m \in AllMatches |-> [match |-> m, mutatorNames |-> MutatorNames(m.mutators),
                         reason |-> Reason(m.reason)]]

\* The heap of a bookkeeper that is alone and has made rules of the
\* directives of the history h: the i-th rule is pushed on the (i-1)-th.
AloneHeap(h) ==
  [i \in 1..Len(h) |-> NewRule(RuleOfDirective[h[i].directive], h[i].loc, i - 1)]

\* C15: two DirectiveBookkeepers never interfere: in every state every
\* query on a bookkeeper returns what a bookkeeper that is alone returns
\* after the directives this one has processed, and a call on one
\* bookkeeper leaves the other's current rule, the rules of its chain and
\* all its answers as they were.
C15_NoInterference ==
  /\ [](\A b \in Bookkeepers, line \in QueryLines, mutatorName \in QueryNames :
          Answer(b, line, mutatorName)
            = findIgnoreReason(AloneHeap(applied[b]), Len(applied[b]), line, mutatorName))
  /\ [][\A b \in Bookkeepers \ {ValueOf(lastCall'.bookkeeper)} :
          /\ currentIgnoreRule'[b] = currentIgnoreRule[b]
          /\ applied'[b] = applied[b]
          /\ \A i \in 1..Len(applied[b]) : rules'[applied[b][i].rule] = rules[applied[b][i].rule]
          /\ \A line \in QueryLines, mutatorName \in QueryNames :
               findIgnoreReason(rules', currentIgnoreRule'[b], line, mutatorName)
                 = Answer(b, line, mutatorName)]_vars

\* C15's case: A has processed `disable all', then B `restore StringLiteral'
\* whose rule lies between A's rules in the heap, then A a `next-line'
\* directive; the two answer differently and B's chain ends in the root.
C15_Witness ==
  /\ Bookkeepers = {"A", "B"}
  /\ Len(applied["A"]) = 2 /\ Len(applied["B"]) = 1
  /\ applied["B"][1].rule = 2
  /\ rules[2].previousRule = rootRule
  /\ rules[3].previousRule = 1
  /\ Answer("A", 1, "StringLiteral") # Answer("B", 1, "StringLiteral")
  /\ Answer("A", 2, "BooleanLiteral") # Answer("B", 2, "BooleanLiteral")
  /\ lastCall.op = "findIgnoreReason"

RECURSIVE ChainOf(_, _)
\* The references of the rules of the chain from ref to the root, the root
\* left out.
ChainOf(heap, ref) ==
  IF ref = rootRule THEN << >> ELSE <<ref>> \o ChainOf(heap, heap[ref].previousRule)

\* A sequence in reverse.
Reverse(seq) == [i \in 1..Len(seq) |-> seq[Len(seq) + 1 - i]]

\* Whether the chain of bookkeeper b lists the directives b has processed,
\* the newest first: the rule of each is the rule the switch statement makes
\* of it, linked to the rule of the directive processed before it.
ChainListsDirectives(b) ==
  LET h == applied[b]
      chain == ChainOf(rules, currentIgnoreRule[b])
  IN /\ chain = Reverse([i \in 1..Len(h) |-> h[i].rule])
     /\ \A i \in 1..Len(h) :
          rules[h[i].rule] = NewRule(RuleOfDirective[h[i].directive], h[i].loc,
                                     IF i = 1 THEN rootRule ELSE h[i - 1].rule)

\* C16: the rule chain is append-only.  In every state the chain from the
\* current rule to the root lists the directives processed so far, the
\* newest first.  Every call that does not throw pushes one rule for each
\* directive among the node's comments (a call that throws, one for each
\* directive before the one it throws at); a rule pushed is linked to the
\* rule that was current just before; no step changes or removes a rule
\* there is, and the current rule of before stays on the chain.
C16_AppendOnly ==
  /\ [](\A b \in Bookkeepers : ChainListsDirectives(b))
  /\ [][ /\ Len(rules') >= Len(rules)
         /\ SubSeq(rules', 1, Len(rules)) = rules
         /\ lastCall'.op = "findIgnoreReason" => rules' = rules
         /\ lastCall'.op = "processStrykerDirectives" =>
              Len(rules') - Len(rules)
                = IF lastCall'.threw THEN Min(ScopedOfCall) - 1 ELSE Len(DirectivesOfCall)
         /\ \A b \in Bookkeepers :
              LET before == ChainOf(rules, currentIgnoreRule[b])
                  after == ChainOf(rules', currentIgnoreRule'[b])
              IN /\ Len(after) >= Len(before)
                 /\ SubSeq(after, Len(after) - Len(before) + 1, Len(after)) = before
                 /\ b = ValueOf(lastCall'.bookkeeper) =>
                      Len(after) - Len(before) = Len(rules') - Len(rules) ]_vars

\* C16's case: three rules were pushed, the last two by one call for a node
\* with two directives; the chain runs from the newest rule to the oldest.
C16_Witness ==
  \E b \in Bookkeepers :
    /\ Len(rules) = 3
    /\ ChainOf(rules, currentIgnoreRule[b]) = <<3, 2, 1>>
    /\ applied[b][2].directive.scope = undefined
    /\ applied[b][3].directive.scope = Some("next-line")
    /\ applied[b][3].directive.directiveType = "restore"
    /\ lastCall.op = "processStrykerDirectives"
    /\ ~lastCall.threw
    /\ Len(ValueOf(ValueOf(lastCall.node).leadingComments)) = 2

RECURSIVE Visits(_, _, _, _)
\* The rules whose findIgnoreReason is called, in the order of the calls,
\* when the rule referred to by ref is asked: the rule itself and, when it
\* does not match, those its previous rule asks.  (The root is left out.)
Visits(heap, ref, mutatorName, line) ==
  IF ref = rootRule THEN << >>
  ELSE IF matches(heap[ref], mutatorName, line) THEN <<ref>>
  ELSE <<ref>> \o Visits(heap, heap[ref].previousRule, mutatorName, line)

\* Whether no rule of the chain of bookkeeper b matches (line, mutatorName).
NoneMatches(b, line, mutatorName) ==
  LET chain == ChainOf(rules, currentIgnoreRule[b])
  IN \A i \in 1..Len(chain) : ~matches(rules[chain[i]], ToLowerCase(mutatorName), line)

\* C17: every findIgnoreReason query terminates.  The previous rule of a
\* rule is an older rule or the root, so a chain has no cycle; a query
\* visits the rules of the chain from the current rule backwards, each at
\* most once, and stops at the first that matches; when none matches it
\* visits them all, reaches the root and yields absent.  A fresh bookkeeper
\* answers absent for every (line, mutatorName).
C17_QueryTerminates ==
  /\ \A r \in 1..Len(rules) : rules[r].previousRule \in 0..(r - 1)
  /\ \A b \in Bookkeepers, line \in QueryLines, mutatorName \in QueryNames :
       LET chain == ChainOf(rules, currentIgnoreRule[b])
           visited == Visits(rules, currentIgnoreRule[b], ToLowerCase(mutatorName), line)
       IN /\ Len(visited) <= Len(chain)
          /\ visited = SubSeq(chain, 1, Len(visited))
          /\ \A i, j \in 1..Len(visited) : i < j => visited[i] > visited[j]
          /\ NoneMatches(b, line, mutatorName) =>
               /\ visited = chain
               /\ Answer(b, line, mutatorName) = undefined
          /\ currentIgnoreRule[b] = rootRule => Answer(b, line, mutatorName) = undefined

\* C17's case: a bookkeeper with a chain of three rules was asked about a
\* name and a line none of them matches; all three were visited and the
\* answer was absent, while another name has an answer at that line.
C17_Witness ==
  \E b \in Bookkeepers, line \in QueryLines, mutatorName \in QueryNames :
    /\ lastCall.op = "findIgnoreReason"
    /\ lastCall.value = undefined
    /\ Len(ChainOf(rules, currentIgnoreRule[b])) = 3
    /\ NoneMatches(b, line, mutatorName)
    /\ Visits(rules, currentIgnoreRule[b], ToLowerCase(mutatorName), line) = <<3, 2, 1>>
    /\ \E other \in QueryNames : IsDefined(Answer(b, line, other))

\* Whether the directive of history entry e is for mutatorName: it lists
\* the name or the wildcard.
IsFor(e, mutatorName) == Lists(e, mutatorName) \/ Lists(e, WILDCARD)

\* C18: a file-scoped rule has no lower line bound.  In every state, for
\* every file-scoped disable processed, the answer for a name it is for is
\* its reason at every line at which no newer rule matches; and right after
\* such a directive is processed at a node on line L this is so at the lines
\* up to L, the lines before the node included.
C18_NoLowerLineBound ==
  /\ [](\A b \in Bookkeepers :
          \A i \in 1..Len(applied[b]) :
            LET e == applied[b][i]
            IN (IsFileWide(e) /\ IsDisable(e)) =>
                 \A line \in QueryLines, mutatorName \in QueryNames :
                   ( /\ IsFor(e, mutatorName)
                     /\ \A j \in (i + 1)..Len(applied[b]) :
                          ~Covers(applied[b][j], line, mutatorName) ) =>
                     Answer(b, line, mutatorName) = Some(RuleOfDirective[e.directive].reason))
  /\ [][( /\ lastCall'.op = "processStrykerDirectives"
          /\ ValueOf(lastCall'.node).loc # undefined ) =>
          LET b == ValueOf(lastCall'.bookkeeper)
              L == ValueOf(ValueOf(lastCall'.node).loc)
          IN \A i \in 1..Len(Added(b)) :
               (IsFileWide(Added(b)[i]) /\ IsDisable(Added(b)[i])) =>
                 \A line \in 1..L, mutatorName \in QueryNames :
                   ( /\ IsFor(Added(b)[i], mutatorName)
                     /\ \A j \in (i + 1)..Len(Added(b)) :
                          ~matches(rules'[Added(b)[j].rule], ToLowerCase(mutatorName), line) ) =>
                     findIgnoreReason(rules', currentIgnoreRule'[b], line, mutatorName)
                       = Some(RuleOfDirective[Added(b)[i].directive].reason)]_vars

\* C18's case: `disable StringLiteral: known issue' was processed at a node
\* on line 2 on top of a `restore StringLiteral'; the answer for
\* StringLiteral at line 1, before the node, is the directive's reason.
C18_Witness ==
  \E b \in Bookkeepers :
    /\ lastCall.op = "processStrykerDirectives"
    /\ ValueOf(lastCall.node).loc = Some(2)
    /\ ValueOf(lastCall.node).leadingComments
         = Some(<<" Stryker disable StringLiteral: known issue ">>)
    /\ Len(applied[b]) = 2
    /\ IsRestore(applied[b][1])
    /\ currentIgnoreRule[b] = 2
    /\ findIgnoreReason(rules, 1, 1, "StringLiteral") = undefined
    /\ Answer(b, 1, "StringLiteral") = Some("known issue")

\* Whether the newest rule of bookkeeper b that matches (line, mutatorName)
\* comes from a disable directive.
NewestMatchingIsDisable(b, line, mutatorName) ==
  LET h == applied[b]
      matching == {i \in 1..Len(h) : Covers(h[i], line, mutatorName)}
  IN matching # {} /\ IsDisable(h[Max(matching)])

\* C19: whenever the newest rule matching (line, mutatorName) comes from a
\* disable directive, findIgnoreReason returns a present, non-empty reason,
\* for every comment text the grammar accepts, a colon followed only by
\* white space included.
C19_DisableReasonNonEmpty ==
  \A b \in Bookkeepers, line \in QueryLines, mutatorName \in QueryNames :
    NewestMatchingIsDisable(b, line, mutatorName) =>
      /\ IsDefined(Answer(b, line, mutatorName))
      /\ ValueOf(Answer(b, line, mutatorName)) # ""

\* C19 for the disable directives whose reason text is not white space
\* only: it holds of them, the reason being the text trimmed or the default.
C19_ExceptBlankReason ==
  \A b \in Bookkeepers, line \in QueryLines, mutatorName \in QueryNames :
    LET h == applied[b]
        matching == {i \in 1..Len(h) : Covers(h[i], line, mutatorName)}
        m == h[Max(matching)].directive
    IN ( /\ NewestMatchingIsDisable(b, line, mutatorName)
         /\ IsDefined(m.reason) => TrimmedReason[m] # "" ) =>
         /\ Answer(b, line, mutatorName)
              = Some(IF IsDefined(m.reason) THEN TrimmedReason[m] ELSE DEFAULT_REASON)
         /\ ValueOf(Answer(b, line, mutatorName)) # ""

====
